---- MODULE Spec2Model ----
(***************************************************************************)
(* Daily-generation analytics of the solar dashboard                       *)
(* (frontend-dashboard/src/pages/data.js, processAnalyticsData).           *)
(*                                                                         *)
(* Conventions of the model                                                *)
(*  - Instants are integer Unix seconds (the code multiplies by 1000 and   *)
(*    compares milliseconds; every instant here is a whole second).        *)
(*  - The wall clock (new Date()) is an input, endDate.  It is set on      *)
(*    1970-01-01 so that the scenarios t = 0, 1800, 3600, 7200 of the      *)
(*    specification fall on the current day; earlier days therefore have   *)
(*    negative Unix time.                                                  *)
(*  - An ISO calendar date 'YYYY-MM-DD' is represented by its UTC day      *)
(*    number floor(t / 86400), an order-preserving bijection.              *)
(*  - Energies are exact rationals kept as integers in units of            *)
(*    1/WhScale Wh (floating-point rounding is not modelled).  Quotients   *)
(*    that the code computes with / are kept as [num, den] pairs.          *)
(*  - The environment's timezone is a fixed offset tzOffset (seconds east  *)
(*    of UTC, no daylight-saving change inside the window), so date-fns    *)
(*    subDays(d, n) is d - n * 86400.                                      *)
(***************************************************************************)
EXTENDS Integers, Sequences, FiniteSets, TLC

VARIABLES data, numDays, endDate, tzOffset, result, pc, loading, voltage, soc,
          snapshot, selectedDate, logsToDisplay, weather, modifier, aiState, request

vars ==
    <<data, numDays, endDate, tzOffset, result, pc, loading, voltage, soc,
      snapshot, selectedDate, logsToDisplay, weather, modifier, aiState, request>>

\* the telemetry log of the data page, the state of the dashboard page
logVars == <<snapshot, selectedDate, logsToDisplay>>
dashboardVars == <<weather, modifier, aiState, request>>

(***************************************************************************)
(* JavaScript values                                                       *)
(***************************************************************************)
\* null / undefined in a field of a log
Null == -1000000000
\* a timestamp that is present but not of type number (a string)
NotANumber == -1000000001

\* the number NaN: typeof NaN === 'number', every comparison with it is false
NaN == -1000000002
\* the numbers +Infinity and -Infinity, beyond every value of the model
PosInfinity == 1000000000
NegInfinity == -999999999

\* typeof x === 'number'
IsNumber(x) == x # Null /\ x # NotANumber

\* a >= b, a <= b, a < b on numbers (and on Dates, by their time value)
JsGe(a, b) == a # NaN /\ b # NaN /\ a >= b
JsLe(a, b) == a # NaN /\ b # NaN /\ a <= b
JsLt(a, b) == a # NaN /\ b # NaN /\ a < b

\* x || 0
OrZero(x) == IF x = Null THEN 0 ELSE x

SecondsPerHour == 3600
SecondsPerDay == 24 * SecondsPerHour
\* (a + b) / 2 * (dt / 3600) Wh is kept as (a + b) * dt
WhScale == 2 * SecondsPerHour
CalendarDays == 34
SeriesLen == 7

Min(a, b) == IF a <= b THEN a ELSE b

\* the quotient num / den of a division of the code, den > 0
Ratio(n, d) == [num |-> n, den |-> d]

\* Math.max(0, ...xs)
MathMaxOfGiven(xs) ==
    IF xs = {} THEN 0 ELSE CHOOSE m \in xs : \A x \in xs : x <= m

MathMax0(xs) == CHOOSE m \in xs \cup {0} : \A x \in xs \cup {0} : x <= m

\* subDays(date, n)
subDays(date, n) == date - n * SecondsPerDay

\* new Date(t * 1000).toISOString().split('T')[0]: the date in UTC
ISODateLocal(t) == (t + tzOffset) \div SecondsPerDay

ISODate(t) == t \div SecondsPerDay

\* new Date(date + "T00:00:00"): midnight of the date in LOCAL time
LocalMidnight(date, tz) == date * SecondsPerDay - tz

(***************************************************************************)
(* processAnalyticsData                                                    *)
(***************************************************************************)
\* the predicate of data.filter(...) that builds relevantData
IsRelevantLastWeek(log, now) ==
    /\ log.obj
    /\ IsNumber(log.timestamp)
    /\ JsGe(log.timestamp, subDays(now, SeriesLen))
    /\ JsLe(log.timestamp, now)

IsRelevant(log, now) ==
    /\ log.obj
    /\ IsNumber(log.timestamp)
    /\ JsGe(log.timestamp, subDays(now, CalendarDays))
    /\ JsLe(log.timestamp, now)

RelevantData(d, now) == SelectSeq(d, LAMBDA log : IsRelevant(log, now))

\* whether the filter predicate evaluates log.timestamp: '!log ||' returns
\* before the property is read when the element is null
ReadsTimestampOfEveryLog(log) == TRUE

ReadsTimestamp(log) == log.obj

\* TypeError: reading a property of null
RaisesInFilter(d) == \E i \in 1..Len(d) : ReadsTimestamp(d[i]) /\ ~d[i].obj

\* RangeError: toISOString() of an Invalid Date while grouping
RaisesInGrouping(d, now) ==
    LET relevantData == RelevantData(d, now)
    IN \E i \in 1..Len(relevantData) : relevantData[i].timestamp = NaN

\* relevantData.reduce(...): date -> logs, keys in insertion order
GroupByDateOfFirst(logs, acc) ==
    IF logs = <<>> THEN acc
    ELSE Append(acc, [date |-> ISODate(logs[1].timestamp), logs |-> logs])

GroupByDate(logs, acc) ==
    LET dateOf(i) == ISODate(logs[i].timestamp)
        ofDate(d) == SelectSeq(logs, LAMBDA log : ISODate(log.timestamp) = d)
        \* the logs that open a new key, in the order they are met
        opening == {i \in 1..Len(logs) :
                      /\ \A j \in 1..(i - 1) : dateOf(j) # dateOf(i)
                      /\ \A k \in 1..Len(acc) : acc[k].date # dateOf(i)}
        nth(k) == CHOOSE i \in opening : Cardinality({j \in opening : j < i}) = k - 1
    IN [k \in 1..Len(acc) |-> [acc[k] EXCEPT !.logs = @ \o ofDate(acc[k].date)]]
         \o [k \in 1..Cardinality(opening) |->
               [date |-> dateOf(nth(k)), logs |-> ofDate(dateOf(nth(k)))]]

\* insertion of x behind every element whose timestamp is <= x.timestamp
RECURSIVE InsertSorted(_, _)
InsertSorted(s, x) ==
    IF s = <<>> THEN <<x>>
    ELSE IF Head(s).timestamp <= x.timestamp
         THEN <<Head(s)>> \o InsertSorted(Tail(s), x)
         ELSE <<x>> \o s

\* logs.sort((a,b) => a.timestamp - b.timestamp), a stable sort
SortByTimestampOmitted(logs) == logs

RECURSIVE SortByTimestamp(_)
SortByTimestamp(logs) ==
    IF logs = <<>> THEN <<>>
    ELSE InsertSorted(SortByTimestamp(SubSeq(logs, 1, Len(logs) - 1)),
                      logs[Len(logs)])

\* the body of the integration loop for one i
PairEnergyRectangle(prev, curr) ==
    LET dt == curr.timestamp - prev.timestamp
    IN IF dt > 0 /\ dt < SecondsPerHour
       THEN 2 * OrZero(curr.dc_power_w) * dt
       ELSE 0

PairEnergyWholeHour(prev, curr) ==
    LET dt == curr.timestamp - prev.timestamp
    IN IF dt > 0 /\ dt <= SecondsPerHour
       THEN (OrZero(curr.dc_power_w) + OrZero(prev.dc_power_w)) * dt
       ELSE 0

PairEnergySkippingNull(prev, curr) ==
    LET dt == curr.timestamp - prev.timestamp
    IN IF dt > 0 /\ dt < SecondsPerHour
          /\ curr.dc_power_w # Null /\ prev.dc_power_w # Null
       THEN (curr.dc_power_w + prev.dc_power_w) * dt
       ELSE 0

PairEnergy(prev, curr) ==
    LET dt == curr.timestamp - prev.timestamp
    IN IF dt > 0 /\ dt < SecondsPerHour
       THEN (OrZero(curr.dc_power_w) + OrZero(prev.dc_power_w)) * dt
       ELSE 0

\* for (let i = 1; i < dayData.length; i++) totalGenerationWh += ...
RECURSIVE Integrate(_, _)
Integrate(dayData, i) ==
    IF i > Len(dayData) THEN 0
    ELSE PairEnergy(dayData[i - 1], dayData[i]) + Integrate(dayData, i + 1)

\* dayData.reduce((sum, d) => sum + (d.panel_temp_c || 0), 0)
RECURSIVE TempSum(_)
TempSum(dayData) ==
    IF dayData = <<>> THEN 0
    ELSE OrZero(Head(dayData).panel_temp_c) + TempSum(Tail(dayData))

\* dayData.map(d => d.dc_power_w || 0) and its siblings, as sets
PowersSkippingFirst(dayData) ==
    {OrZero(dayData[i].dc_power_w) : i \in 2..Len(dayData)}

Powers(dayData) == {OrZero(dayData[i].dc_power_w) : i \in 1..Len(dayData)}
Voltages(dayData) == {OrZero(dayData[i].dc_voltage_v) : i \in 1..Len(dayData)}
Currents(dayData) == {OrZero(dayData[i].dc_current_ma) : i \in 1..Len(dayData)}

\* one element of fullDailyStats
DayStat(group) ==
    LET dayData == SortByTimestamp(group.logs)
    IN [date |-> group.date,
        totalGenerationWh |-> Integrate(dayData, 2),
        peakPowerW |-> MathMax0(Powers(dayData)),
        maxVoltage |-> MathMax0(Voltages(dayData)),
        maxCurrent |-> MathMax0(Currents(dayData)),
        avgPanelTemp |-> [num |-> TempSum(dayData), den |-> Len(dayData)]]

FullDailyStats(d, now) ==
    LET groupedByDate == GroupByDate(RelevantData(d, now), <<>>)
    IN [i \in 1..Len(groupedByDate) |-> DayStat(groupedByDate[i])]

\* fullDailyStats.filter(stat => statDate >= subDays(endDate, numDays))
InSummaryWindow(stat, n, now, tz) ==
    LocalMidnight(stat.date, tz) >= subDays(now, n)

SummaryStats(stats, n, now, tz) ==
    SelectSeq(stats, LAMBDA stat : InSummaryWindow(stat, n, now, tz))

RECURSIVE SumGeneration(_)
SumGeneration(stats) ==
    IF stats = <<>> THEN 0
    ELSE Head(stats).totalGenerationWh + SumGeneration(Tail(stats))

Reverse(s) == [i \in 1..Len(s) |-> s[Len(s) + 1 - i]]

\* summaryStats.slice(0, 7).map(d => ({name, generation})).reverse()
\* name is format(local midnight of d.date, 'MMM d'): the date itself
Last7DaysGeneration(summaryStats) ==
    LET head == SubSeq(summaryStats, 1, Min(SeriesLen, Len(summaryStats)))
    IN Reverse([i \in 1..Len(head) |->
                 [name |-> head[i].date,
                  generation |-> head[i].totalGenerationWh]])

SummaryAveragedOverSeries(summaryStats) ==
    LET totalGenerationWh == SumGeneration(summaryStats)
    IN [totalKwh |-> [num |-> totalGenerationWh, den |-> 1000],
        avgDailyWh |-> [num |-> totalGenerationWh, den |-> SeriesLen],
        peakGenerationW |->
            MathMax0({summaryStats[i].peakPowerW : i \in 1..Len(summaryStats)}),
        last7DaysGeneration |-> Last7DaysGeneration(summaryStats)]

Summary(summaryStats) ==
    LET totalGenerationWh == SumGeneration(summaryStats)
    IN [totalKwh |-> [num |-> totalGenerationWh, den |-> 1000],
        avgDailyWh |-> IF Len(summaryStats) > 0
                       THEN [num |-> totalGenerationWh, den |-> Len(summaryStats)]
                       ELSE [num |-> 0, den |-> 1],
        peakGenerationW |->
            MathMax0({summaryStats[i].peakPowerW : i \in 1..Len(summaryStats)}),
        last7DaysGeneration |-> Last7DaysGeneration(summaryStats)]

\* return null
NullResult == [isNull |-> TRUE]

\* an absent collection (undefined): a value that is no list of logs
Undefined == <<[undefined |-> TRUE]>>

\* !data || data.length < 2
InsufficientInputWhenEmpty(d) == d = Undefined \/ Len(d) = 0

InsufficientInput(d) == d = Undefined \/ Len(d) < 2

\* whether the call ends by an exception instead of a return
Raises(d, now) ==
    /\ ~InsufficientInput(d)
    /\ RaisesInFilter(d) \/ RaisesInGrouping(d, now)

processAnalyticsData(d, n, now, tz) ==
    IF InsufficientInput(d) THEN NullResult
    ELSE LET fullDailyStats == FullDailyStats(d, now)
         IN IF Len(fullDailyStats) = 0 THEN NullResult
            ELSE [isNull |-> FALSE,
                  summary |-> Summary(SummaryStats(fullDailyStats, n, now, tz)),
                  dailyStats |-> fullDailyStats]

(***************************************************************************)
(* getBatterySOC.  Voltages are kept in hundredths of a volt; the state    *)
(* of charge is the exact quotient of the interpolation.                   *)
(***************************************************************************)
VoltageMap ==
    <<[v |-> 1160, soc |-> 0], [v |-> 1180, soc |-> 20],
      [v |-> 1210, soc |-> 40], [v |-> 1220, soc |-> 50],
      [v |-> 1240, soc |-> 70], [v |-> 1270, soc |-> 100]>>

\* voltage >= voltageMap[voltageMap.length - 1].v
TopSaturatedAbove(v) == JsLt(VoltageMap[Len(VoltageMap)].v, v)

TopSaturated(v) == JsGe(v, VoltageMap[Len(VoltageMap)].v)

\* voltage <= voltageMap[0].v
BottomSaturated(v) == JsLe(v, VoltageMap[1].v)

\* the index at which the loop ends: the last i with voltage < voltageMap[i].v
RECURSIVE LastAbove(_, _)
LastAbove(v, i) ==
    IF i > Len(VoltageMap) THEN 0
    ELSE LET rest == LastAbove(v, i + 1)
         IN IF rest # 0 THEN rest
            ELSE IF JsLt(v, VoltageMap[i].v) THEN i ELSE 0

\* the index at which the loop returns: the first i with
\* voltage < voltageMap[i].v, 0 when the loop runs to its end
RECURSIVE FirstAbove(_, _)
FirstAbove(v, i) ==
    IF i > Len(VoltageMap) THEN 0
    ELSE IF JsLt(v, VoltageMap[i].v) THEN i
    ELSE FirstAbove(v, i + 1)

\* Math.min(100, Math.max(0, soc))
ClampSoc(r) ==
    IF r.num < 0 THEN Ratio(0, 1)
    ELSE IF r.num > 100 * r.den THEN Ratio(100, 1)
    ELSE r

\* lower.soc + (voltagePosition / voltageRange) * socRange
InterpolateToUpperSoc(v, lower, upper) ==
    LET voltageRange == upper.v - lower.v
        voltagePosition == v - lower.v
    IN Ratio(lower.soc * voltageRange + voltagePosition * upper.soc,
             voltageRange)

Interpolate(v, lower, upper) ==
    LET voltageRange == upper.v - lower.v
        socRange == upper.soc - lower.soc
        voltagePosition == v - lower.v
    IN Ratio(lower.soc * voltageRange + voltagePosition * socRange,
             voltageRange)

getBatterySOC(v) ==
    IF ~IsNumber(v) THEN Ratio(0, 1)
    ELSE IF TopSaturated(v) THEN Ratio(100, 1)
    ELSE IF BottomSaturated(v) THEN Ratio(0, 1)
    ELSE LET i == FirstAbove(v, 2)
         IN IF i = 0 THEN Ratio(0, 1)
            ELSE ClampSoc(Interpolate(v, VoltageMap[i - 1], VoltageMap[i]))

(***************************************************************************)
(* Inputs                                                                  *)
(***************************************************************************)
MaxLen == 2
MaxIntraday == 3
MaxRun == 10

Log(t, r) ==
    [obj |-> TRUE, timestamp |-> t,
     dc_power_w |-> r.dc_power_w, dc_voltage_v |-> r.dc_voltage_v,
     dc_current_ma |-> r.dc_current_ma, panel_temp_c |-> r.panel_temp_c]

Reading(p, v, c, temp) ==
    [dc_power_w |-> p, dc_voltage_v |-> v,
     dc_current_ma |-> c, panel_temp_c |-> temp]

\* a null element of the collection
NullLog ==
    [obj |-> FALSE, timestamp |-> Null,
     dc_power_w |-> Null, dc_voltage_v |-> Null,
     dc_current_ma |-> Null, panel_temp_c |-> Null]

Readings ==
    {Reading(100, 12, 500, 20), Reading(0, Null, Null, Null),
     Reading(Null, 13, 300, 40), Reading(200, 11, 700, Null)}

\* the clock of the run: 1970-01-01 12:00 UTC
Noon == 12 * SecondsPerHour

\* today 00:00 and 00:30, yesterday 23:45, ten days ago, the day that
\* starts before the 34-day horizon, and an instant after the clock
MixedTimes ==
    {0, 1800, -900, 1800 - 10 * SecondsPerDay,
     SecondsPerHour - CalendarDays * SecondsPerDay, Noon + SecondsPerHour}

UnusableLogs ==
    {NullLog, Log(Null, Reading(100, 12, 500, 20)),
     Log(NotANumber, Reading(100, 12, 500, 20)),
     Log(NaN, Reading(100, 12, 500, 20))}

MixedLogs == {Log(t, r) : t \in MixedTimes, r \in Readings} \cup UnusableLogs

IntradayLog(t, p) == Log(t, Reading(p, 12, 500, 25))

\* samples of the current day that differ in instant and power only
IntradayTimes == {0, 1800, 3600, 7200}
IntradayPowers == {0, 100, 200}
IntradayLogs ==
    {Log(t, Reading(p, 12, 500, 25)) : t \in IntradayTimes, p \in IntradayPowers}

SeqsUpTo(S, n) == UNION {[1..k -> S] : k \in 0..n}

\* one sample at 00:30 on each of the k most recent days, oldest first
DailyRun(k) ==
    [i \in 1..k |-> Log(1800 - (k - i) * SecondsPerDay, Reading(100, 12, 500, 20))]

DailyRuns == UNION {{DailyRun(k), Reverse(DailyRun(k))} : k \in 1..MaxRun}

\* two samples half an hour apart yesterday and two today
TwoDays(p, q) ==
    <<IntradayLog(-SecondsPerDay, p), IntradayLog(1800 - SecondsPerDay, p),
      IntradayLog(0, q), IntradayLog(1800, q)>>

TwoDayInputs == {TwoDays(p, q) : p, q \in IntradayPowers}

\* samples of the current day some of which carry negative readings
SignedLogs ==
    {Log(t, r) : t \in {0, 1800},
                 r \in {Reading(-50, -1, -10, 20), Reading(100, 12, 500, 20)}}

SignedInputs == [1..2 -> SignedLogs]

Inputs ==
    SeqsUpTo(MixedLogs, MaxLen) \cup SeqsUpTo(IntradayLogs, MaxIntraday)
        \cup DailyRuns \cup TwoDayInputs \cup SignedInputs

\* a run early in the UTC day, 02:00, sees the daily series
EarlyClock == 2 * SecondsPerHour

WindowChoices == {7, 10}
TzChoices == {-5 * SecondsPerHour, 0, 3 * SecondsPerHour}

(***************************************************************************)
(* The telemetry log of the data page: logsToDisplay                       *)
(***************************************************************************)
\* the local calendar day of an instant; isSameDay compares local days
LocalDate(t, tz) == (t + tz) \div SecondsPerDay

\* the place of each element after a stable sort by descending timestamp:
\* behind every later sample and behind the samples of equal timestamp
\* that precede it in arr
PlaceLatestFirst(arr) ==
    [i \in 1..Len(arr) |->
        1 + Cardinality({j \in 1..Len(arr) :
              \/ arr[j].timestamp > arr[i].timestamp
              \/ arr[j].timestamp = arr[i].timestamp /\ j < i})]

Arrange(arr, place) ==
    [k \in 1..Len(arr) |-> arr[CHOOSE i \in 1..Len(arr) : place[i] = k]]

\* arr.sort((a,b) => b.timestamp - a.timestamp), a stable sort
SortLatestFirstOmitted(arr) == arr

SortLatestFirst(arr) ==
    CHOOSE sorted \in {Arrange(arr, place) : place \in {PlaceLatestFirst(arr)}} : TRUE

LogLimit == 100

\* [...allData]: a new array of the same elements; shared tells whether
\* the array is allData itself
SpreadOmitted(arr) == [shared |-> TRUE, items |-> arr]

Spread(arr) == [shared |-> FALSE, items |-> arr]

\* the memo logsToDisplay: the rows to show, and allData as the call leaves it (sort
\* reorders its receiver in place; filter and slice return new arrays)
LogsMemo(allData, selected, tz) ==
    IF selected # Null
    THEN [logs |-> SortLatestFirst(SelectSeq(allData,
                      LAMBDA log : LocalDate(log.timestamp, tz) = selected)),
          allData |-> allData]
    ELSE LET copy == Spread(allData)
             sorted == SortLatestFirst(copy.items)
         IN [logs |-> SubSeq(sorted, 1, Min(LogLimit, Len(sorted))),
             allData |-> IF copy.shared THEN sorted ELSE allData]

\* the cells of the calendar, as local days, for a clock on 1970-01-01:
\* startOfMonth(subDays(today, 34)) = 1969-11-01, endOfMonth(today) = 1970-01-31
CalendarFirstDay == -61
CalendarLastDay == 30

\* before anything is delivered or clicked
LogAtRest == snapshot = Undefined /\ selectedDate = Null /\ logsToDisplay = <<>>

(***************************************************************************)
(* The dashboard page: getWeatherModifier and the prediction request       *)
(***************************************************************************)
\* null (of a report, an error, an observation)
JsNull == [isNull |-> TRUE]

\* the words of a text description and their lower-case forms
LowerCaseOf ==
    ("Mostly" :> "mostly") @@ ("Partly" :> "partly") @@ ("Sunny" :> "sunny")
    @@ ("sunny" :> "sunny") @@ ("Clear" :> "clear") @@ ("Cloudy" :> "cloudy")
    @@ ("CLOUDY" :> "cloudy") @@ ("Rain" :> "rain") @@ ("Fog" :> "fog")
    @@ ("Overcast" :> "overcast") @@ ("Windy" :> "windy")

Words == DOMAIN LowerCaseOf

\* textDescription.toLowerCase(), a description being its words in order
toLowerCase(text) == [i \in 1..Len(text) |-> LowerCaseOf[text[i]]]

\* desc.includes(phrase)
Includes(desc, phrase) ==
    \E i \in 0..(Len(desc) - Len(phrase)) :
        SubSeq(desc, i + 1, i + Len(phrase)) = phrase

\* an observation without textDescription, or with the empty string
NoDescription == <<>>

\* the modifier in hundredths
getWeatherModifier(w) ==
    IF w.isNull \/ w.textDescription = NoDescription THEN 70
    ELSE LET desc == toLowerCase(w.textDescription)
         IN IF Includes(desc, <<"sunny">>) \/ Includes(desc, <<"clear">>)
            THEN 100
            ELSE IF Includes(desc, <<"mostly", "sunny">>)
                      \/ Includes(desc, <<"partly", "sunny">>)
            THEN 80
            ELSE IF Includes(desc, <<"partly", "cloudy">>) THEN 60
            ELSE IF Includes(desc, <<"mostly", "cloudy">>) THEN 40
            ELSE IF Includes(desc, <<"cloudy">>) THEN 30
            ELSE IF Includes(desc, <<"rain">>) \/ Includes(desc, <<"fog">>)
                      \/ Includes(desc, <<"overcast">>)
            THEN 15
            ELSE 50

\* x.toFixed(1) of a number kept in hundredths: the number of tenths
toFixed1(x) == IF x >= 0 THEN (x + 5) \div 10 ELSE -((5 - x) \div 10)

\* setAiState({ loading: true, report: null, error: null })
AnalysisStartedKeepingResult(prev) == [prev EXCEPT !.loading = TRUE]

AnalysisStarted(prev) == [loading |-> TRUE, report |-> JsNull, error |-> JsNull]

\* the state set in the catch block
AnalysisFailed ==
    [loading |-> FALSE, report |-> JsNull,
     error |-> [isNull |-> FALSE,
                message |-> "Analysis failed. Ensure Flask API is running."]]

\* the state set after a response whose body has report and prediction
AnalysisSucceeded(body) ==
    [loading |-> FALSE,
     report |-> [isNull |-> FALSE,
                 report |-> body.report,
                 prediction |->
                     [final_soc |-> toFixed1(body.prediction.final_soc),
                      total_wh |-> toFixed1(body.prediction.total_wh),
                      net_wh_gain |-> toFixed1(OrZero(body.prediction.net_wh_gain))]],
     error |-> JsNull]

\* useState({ loading: false, report: null, error: null })
AiIdle == [loading |-> FALSE, report |-> JsNull, error |-> JsNull]

\* useState(null) of weather, no request made
DashboardAtRest ==
    /\ weather = [isNull |-> TRUE, textDescription |-> NoDescription]
    /\ modifier = getWeatherModifier(weather)
    /\ aiState = AiIdle
    /\ request = "none"

(***************************************************************************)
(* The run                                                                 *)
(***************************************************************************)
Init ==
    /\ \/ endDate = Noon /\ data \in Inputs
       \/ endDate = EarlyClock /\ data \in DailyRuns \cup TwoDayInputs
    /\ numDays \in WindowChoices
    /\ tzOffset \in TzChoices
    /\ result = NullResult
    /\ pc = "idle"
    /\ loading = TRUE
    /\ voltage = Null
    /\ soc = Ratio(0, 1)
    /\ LogAtRest
    /\ DashboardAtRest

\* one call processAnalyticsData(data, numDays); an exception leaves no result
Process ==
    /\ pc = "idle"
    /\ IF Raises(data, endDate)
       THEN pc' = "raised" /\ result' = result
       ELSE /\ result' = processAnalyticsData(data, numDays, endDate, tzOffset)
            /\ pc' = "done"
    /\ UNCHANGED <<data, numDays, endDate, tzOffset, loading, voltage, soc>>
    /\ UNCHANGED <<logVars, dashboardVars>>

Next == Process

Spec == Init /\ [][Next]_vars

(***************************************************************************)
(* The data page: the snapshot listener and what the page shows            *)
(***************************************************************************)
MaxSnapshot == 3

\* the query of the page returns samples with a numeric timestamp of the
\* last 35 days: today 00:00 and 00:30, ten days ago, and one sample older
\* than 34 days
PageLogs ==
    {Log(0, Reading(100, 12, 500, 25)), Log(1800, Reading(200, 12, 500, 25)),
     Log(1800 - 10 * SecondsPerDay, Reading(100, 12, 500, 20)),
     Log(SecondsPerHour - CalendarDays * SecondsPerDay, Reading(100, 12, 500, 20))}

\* Object.values(snapshot.val()); the empty list stands for val = null
PageSnapshots == SeqsUpTo(PageLogs, MaxSnapshot)

InitPage ==
    /\ data = <<>>
    /\ numDays = SeriesLen
    /\ endDate = Noon
    /\ tzOffset \in TzChoices
    /\ result = NullResult
    /\ pc = "mounted"
    /\ loading = TRUE
    /\ voltage = Null
    /\ soc = Ratio(0, 1)
    /\ LogAtRest
    /\ DashboardAtRest

\* the success callback of onValue, accumulating what was delivered
OnSnapshotAccumulating(val) ==
    /\ pc = "mounted"
    /\ snapshot' = val
    /\ IF val # <<>>
       THEN LET shown == LogsMemo(data \o val, selectedDate, tzOffset)
            IN /\ data' = shown.allData
               /\ logsToDisplay' = shown.logs
               /\ result' = processAnalyticsData(data \o val, numDays, endDate, tzOffset)
               /\ loading' = FALSE
               /\ pc' = pc
       ELSE /\ loading' = FALSE
            /\ UNCHANGED <<data, result, pc, logsToDisplay>>
    /\ UNCHANGED <<numDays, endDate, tzOffset, voltage, soc, selectedDate>>
    /\ UNCHANGED dashboardVars

\* the success callback of onValue, and the render that follows it
OnSnapshot(val) ==
    /\ pc = "mounted"
    /\ snapshot' = val
    /\ IF val # <<>>
       THEN IF Raises(val, endDate)
            THEN /\ pc' = "raised"
                 /\ data' = val
                 /\ UNCHANGED <<result, loading, logsToDisplay>>
            ELSE LET shown == LogsMemo(val, selectedDate, tzOffset)
                 IN /\ data' = shown.allData
                    /\ logsToDisplay' = shown.logs
                    /\ result' = processAnalyticsData(val, numDays, endDate, tzOffset)
                    /\ loading' = FALSE
                    /\ pc' = pc
       ELSE /\ loading' = FALSE
            /\ UNCHANGED <<data, result, pc, logsToDisplay>>
    /\ UNCHANGED <<numDays, endDate, tzOffset, voltage, soc, selectedDate>>
    /\ UNCHANGED dashboardVars

\* the error callback of onValue
OnError ==
    /\ pc = "mounted"
    /\ loading' = FALSE
    /\ UNCHANGED <<data, numDays, endDate, tzOffset, result, pc, voltage, soc>>
    /\ UNCHANGED <<logVars, dashboardVars>>

\* loading ? ... : analytics ? widgets : empty state
View ==
    IF loading THEN "loading"
    ELSE IF ~result.isNull THEN "widgets"
    ELSE "empty"

\* the calendar cells that have a daily record: stat is found when the
\* local midnight of stat.date is on the cell's local day
ClickableDays ==
    IF View # "widgets" THEN {}
    ELSE {result.dailyStats[i].date : i \in 1..Len(result.dailyStats)}
            \cap (CalendarFirstDay..CalendarLastDay)

\* onClick of a calendar cell: stat && onDateClick(day), and the render
handleDateClick(day) ==
    /\ pc = "mounted"
    /\ day \in ClickableDays
    /\ selectedDate' = IF selectedDate # Null /\ selectedDate = day THEN Null ELSE day
    /\ LET shown == LogsMemo(data, selectedDate', tzOffset)
       IN data' = shown.allData /\ logsToDisplay' = shown.logs
    /\ UNCHANGED <<numDays, endDate, tzOffset, result, pc, loading, voltage, soc>>
    /\ UNCHANGED <<snapshot, dashboardVars>>

\* the button 'Show Latest', rendered while a date is selected
ShowLatest ==
    /\ pc = "mounted"
    /\ selectedDate # Null
    /\ selectedDate' = Null
    /\ LET shown == LogsMemo(data, Null, tzOffset)
       IN data' = shown.allData /\ logsToDisplay' = shown.logs
    /\ UNCHANGED <<numDays, endDate, tzOffset, result, pc, loading, voltage, soc>>
    /\ UNCHANGED <<snapshot, dashboardVars>>

NextPage ==
    \/ \E val \in PageSnapshots : OnSnapshot(val)
    \/ OnError
    \/ \E day \in CalendarFirstDay..CalendarLastDay : handleDateClick(day)
    \/ ShowLatest

SpecPage == InitPage /\ [][NextPage]_vars

(***************************************************************************)
(* The data page holding more samples than the log shows                   *)
(***************************************************************************)
MaxExcess == 2

\* n samples half an hour apart, the latest at 00:30 today, latest first
LongRun(n) == [i \in 1..n |-> Log(1800 - (i - 1) * 1800, Reading(100, 12, 500, 20))]

\* the same samples oldest first, and with the two halves exchanged
LongSnapshots ==
    UNION {{LongRun(n), Reverse(LongRun(n)),
            SubSeq(LongRun(n), n \div 2 + 1, n) \o SubSeq(LongRun(n), 1, n \div 2)} :
           n \in (LogLimit - 2)..(LogLimit + MaxExcess)}

\* the page after the listener has delivered one such snapshot
InitLog ==
    /\ data \in LongSnapshots
    /\ snapshot = data
    /\ numDays = SeriesLen
    /\ endDate = Noon
    /\ tzOffset \in TzChoices
    /\ result = processAnalyticsData(data, numDays, endDate, tzOffset)
    /\ pc = "mounted"
    /\ loading = FALSE
    /\ voltage = Null
    /\ soc = Ratio(0, 1)
    /\ selectedDate = Null
    /\ logsToDisplay = LogsMemo(data, Null, tzOffset).logs
    /\ DashboardAtRest

NextLog ==
    \/ \E day \in CalendarFirstDay..CalendarLastDay : handleDateClick(day)
    \/ ShowLatest

SpecLog == InitLog /\ [][NextLog]_vars

(***************************************************************************)
(* The dashboard page                                                      *)
(***************************************************************************)
MaxWords == 2

Observations ==
    {JsNull @@ [textDescription |-> NoDescription]}
        \cup {[isNull |-> FALSE, textDescription |-> text] :
                text \in SeqsUpTo(Words, MaxWords)}

\* the bodies of a response of /analyze, numbers in hundredths; the last
\* one has no prediction
ResponseBodies ==
    {[report |-> "report",
      prediction |-> [isNull |-> FALSE, final_soc |-> 5525, total_wh |-> w,
                      net_wh_gain |-> g]] :
        w \in {0, 12345}, g \in {Null, -250, 1000}}
      \cup {[report |-> "report", prediction |-> JsNull]}

InitDashboard ==
    /\ weather \in Observations
    /\ modifier = getWeatherModifier([isNull |-> TRUE, textDescription |-> NoDescription])
    /\ aiState = AiIdle
    /\ request = "none"
    /\ pc = "dashboard"
    /\ data = <<>>
    /\ numDays = SeriesLen
    /\ endDate = Noon
    /\ tzOffset = 0
    /\ result = NullResult
    /\ loading = TRUE
    /\ voltage = Null
    /\ soc = Ratio(0, 1)
    /\ LogAtRest

\* one tick of the simulation loop: generateMockData(weather?.current_observation)
Simulate ==
    /\ pc \in {"dashboard", "simulated"}
    /\ modifier' = getWeatherModifier(weather)
    /\ pc' = "simulated"
    /\ UNCHANGED <<weather, aiState, request>>
    /\ UNCHANGED <<data, numDays, endDate, tzOffset, result, loading, voltage, soc>>
    /\ UNCHANGED logVars

\* onClick of 'Run Prediction', a button rendered once the simulation has
\* produced data and disabled while aiState.loading
runAnalysis ==
    /\ pc = "simulated"
    /\ ~aiState.loading
    /\ aiState' = AnalysisStarted(aiState)
    /\ request' = "pending"
    /\ UNCHANGED <<weather, modifier, pc>>
    /\ UNCHANGED <<data, numDays, endDate, tzOffset, result, loading, voltage, soc>>
    /\ UNCHANGED logVars

\* the promise of axios.post is fulfilled; reading prediction.final_soc of
\* a body without prediction throws inside the try block
Fulfilled(body) ==
    /\ request = "pending"
    /\ IF body.prediction.isNull
       THEN aiState' = AnalysisFailed /\ request' = "failed"
       ELSE aiState' = AnalysisSucceeded(body) /\ request' = "succeeded"
    /\ UNCHANGED <<weather, modifier, pc>>
    /\ UNCHANGED <<data, numDays, endDate, tzOffset, result, loading, voltage, soc>>
    /\ UNCHANGED logVars

\* the promise of axios.post is rejected
Rejected ==
    /\ request = "pending"
    /\ aiState' = AnalysisFailed
    /\ request' = "failed"
    /\ UNCHANGED <<weather, modifier, pc>>
    /\ UNCHANGED <<data, numDays, endDate, tzOffset, result, loading, voltage, soc>>
    /\ UNCHANGED logVars

NextDashboard ==
    \/ Simulate
    \/ runAnalysis
    \/ \E body \in ResponseBodies : Fulfilled(body)
    \/ Rejected

SpecDashboard == InitDashboard /\ [][NextDashboard]_vars

(***************************************************************************)
(* A row of the telemetry log: getBatterySOC(row.dc_voltage_v)             *)
(***************************************************************************)
VoltageChoices ==
    (1150..1280) \cup {Null, NotANumber, NaN, PosInfinity, NegInfinity}

InitSOC ==
    /\ voltage \in VoltageChoices
    /\ soc = Ratio(0, 1)
    /\ pc = "row"
    /\ LogAtRest
    /\ DashboardAtRest
    /\ data = <<>>
    /\ numDays = SeriesLen
    /\ endDate = Noon
    /\ tzOffset = 0
    /\ result = NullResult
    /\ loading = TRUE

RenderRow ==
    /\ pc = "row"
    /\ soc' = getBatterySOC(voltage)
    /\ pc' = "rendered"
    /\ UNCHANGED <<data, numDays, endDate, tzOffset, result, loading, voltage>>
    /\ UNCHANGED <<logVars, dashboardVars>>

NextSOC == RenderRow

SpecSOC == InitSOC /\ [][NextSOC]_vars

TypeOK ==
    /\ pc \in {"idle", "done", "raised", "mounted", "row", "rendered",
              "dashboard", "simulated"}
    /\ aiState.loading \in BOOLEAN
    /\ request \in {"none", "pending", "succeeded", "failed"}
    /\ modifier \in 0..100
    /\ selectedDate \in {Null} \cup (CalendarFirstDay..CalendarLastDay)
    /\ loading \in BOOLEAN
    /\ soc.den > 0
    /\ result.isNull \in BOOLEAN

(***************************************************************************)
(* Vocabulary of the properties                                            *)
(***************************************************************************)
Returned == pc = "done" /\ ~result.isNull

RECURSIVE SetSum(_, _)
SetSum(S, f) ==
    IF S = {} THEN 0
    ELSE LET x == CHOOSE y \in S : TRUE
         IN f[x] + SetSum(S \ {x}, f)

\* the samples of one date as the integration loop sees them
DayData(date) ==
    SortByTimestamp(SelectSeq(RelevantData(data, endDate),
                              LAMBDA log : ISODate(log.timestamp) = date))

GapSeconds(day, k) == day[k].timestamp - day[k - 1].timestamp

\* 0 < dtHours < 1
AcceptedPairs(day) ==
    {k \in 2..Len(day) : 0 < GapSeconds(day, k) /\ GapSeconds(day, k) < SecondsPerHour}

PowerSum(day, k) == OrZero(day[k].dc_power_w) + OrZero(day[k - 1].dc_power_w)

(***************************************************************************)
(* C1  Gap rejection.  In every returned daily record the energy is built  *)
(* from accepted pairs only: a day none of whose consecutive pairs has a   *)
(* gap strictly between 0 and one hour (gaps of zero, of exactly one hour  *)
(* or more) has totalGenerationWh = 0, and a day has a positive total      *)
(* exactly when some accepted pair carries power.  The samples t = 0       *)
(* (100 W) and t = 7200 (0 W) give totalGenerationWh = 0.                  *)
(***************************************************************************)
GapRejection ==
    Returned =>
        /\ \A i \in 1..Len(result.dailyStats) :
             LET stat == result.dailyStats[i]
                 day == DayData(stat.date)
             IN /\ AcceptedPairs(day) = {} => stat.totalGenerationWh = 0
                /\ stat.totalGenerationWh > 0
                     <=> \E k \in AcceptedPairs(day) : PowerSum(day, k) > 0
        /\ data = <<IntradayLog(0, 100), IntradayLog(7200, 0)>>
             => result.dailyStats[1].totalGenerationWh = 0

\* a returned day whose only pair, 100 W then 0 W two hours later, is rejected
GapRejectionWitness ==
    /\ Returned
    /\ data = <<IntradayLog(0, 100), IntradayLog(7200, 0)>>
    /\ Len(result.dailyStats) = 1
    /\ AcceptedPairs(DayData(0)) = {}
    /\ result.dailyStats[1].totalGenerationWh = 0

(***************************************************************************)
(* C2  Trapezoidal total.  In every returned daily record                  *)
(* totalGenerationWh is the sum over the accepted consecutive pairs of     *)
(* (curr.dc_power_w + prev.dc_power_w) / 2 * dtHours.  The one-day input   *)
(* (0 s, 0 W), (1800 s, 100 W), (3600 s, 200 W) gives 100 Wh and a peak    *)
(* of 200 W.                                                               *)
(***************************************************************************)
TrapezoidalTotal ==
    Returned =>
        /\ \A i \in 1..Len(result.dailyStats) :
             LET stat == result.dailyStats[i]
                 day == DayData(stat.date)
                 area == [k \in AcceptedPairs(day) |->
                             PowerSum(day, k) * GapSeconds(day, k)]
             IN stat.totalGenerationWh = SetSum(AcceptedPairs(day), area)
        /\ data = <<IntradayLog(0, 0), IntradayLog(1800, 100), IntradayLog(3600, 200)>>
             => /\ result.dailyStats[1].totalGenerationWh = 100 * WhScale
                /\ result.dailyStats[1].peakPowerW = 200

TrapezoidalTotalWitness ==
    /\ Returned
    /\ data = <<IntradayLog(0, 0), IntradayLog(1800, 100), IntradayLog(3600, 200)>>
    /\ Cardinality(AcceptedPairs(DayData(0))) = 2
    /\ result.dailyStats[1].totalGenerationWh = 100 * WhScale

\* the dates of the daily records of a result (none when it is null)
StatDates(r) ==
    IF r.isNull THEN {} ELSE {r.dailyStats[i].date : i \in 1..Len(r.dailyStats)}

\* the daily records that pass the trailing-window test of the run
WindowDates(r) ==
    {r.dailyStats[i].date : i \in
        {j \in 1..Len(r.dailyStats) :
            InSummaryWindow(r.dailyStats[j], numDays, endDate, tzOffset)}}

Series(r) == r.summary.last7DaysGeneration

SeriesDates(r) == {Series(r)[i].name : i \in 1..Len(Series(r))}

\* a non-null sample whose timestamp is a number
Usable(log) == log.obj /\ log.timestamp \notin {Null, NotANumber, NaN}

RunLog(t) == Log(t, Reading(100, 12, 500, 20))

(***************************************************************************)
(* C3  NoData for an empty window.  Whenever no daily record of a          *)
(* returned result lies in the trailing window, the summary is the         *)
(* explicit no-data value (null), not a record of zero totals; a window    *)
(* that holds days, all of zero generation, has a summary with total 0.    *)
(***************************************************************************)
NoDataForEmptyWindow ==
    Returned =>
        /\ WindowDates(result) = {} => result.summary = NullResult
        /\ WindowDates(result) # {} =>
             /\ result.summary # NullResult
             /\ (\A i \in 1..Len(result.dailyStats) :
                    result.dailyStats[i].totalGenerationWh = 0)
                  => result.summary.totalKwh.num = 0

(***************************************************************************)
(* C4  Series ordering.  The chart series of every returned summary lists  *)
(* its days in strictly ascending order of date, whatever the order of     *)
(* the input.                                                              *)
(***************************************************************************)
SeriesAscending ==
    Returned =>
        \A i, j \in 1..Len(Series(result)) :
            i < j => Series(result)[i].name < Series(result)[j].name

(***************************************************************************)
(* C5  Series membership.  The chart series of every returned summary has  *)
(* exactly one entry for each day of the trailing window and no other      *)
(* entry; ten consecutive days with a window of 7 give the 7 most recent   *)
(* days.                                                                   *)
(***************************************************************************)
SeriesMembership ==
    Returned =>
        /\ SeriesDates(result) = WindowDates(result)
        /\ Len(Series(result)) = Cardinality(WindowDates(result))
        /\ (numDays = 7 /\ Len(data) = 10
              /\ \A i \in 1..10 : \E k \in 0..9 :
                    data[i] = RunLog(1800 - k * SecondsPerDay))
             => SeriesDates(result) = (-6)..0

\* the dates on which the input has a sample that satisfies P
InputDates(P(_)) ==
    {data[i].timestamp \div SecondsPerDay : i \in {j \in 1..Len(data) : P(data[j])}}

\* a usable sample no older than 34 days and not later than the run
InHorizon(log) ==
    /\ Usable(log)
    /\ endDate - CalendarDays * SecondsPerDay <= log.timestamp
    /\ log.timestamp <= endDate

AvgPanelTempOverNonNull ==
    Returned =>
        \A i \in 1..Len(result.dailyStats) :
            LET stat == result.dailyStats[i]
                day == DayData(stat.date)
                withTemp == {k \in 1..Len(day) : day[k].panel_temp_c # Null}
                temp == [k \in withTemp |-> day[k].panel_temp_c]
            IN IF withTemp = {}
               THEN stat.avgPanelTemp.num = 0
               ELSE stat.avgPanelTemp.num * Cardinality(withTemp)
                      = SetSum(withTemp, temp) * stat.avgPanelTemp.den

(***************************************************************************)
(* C8  Peaks over all samples.  In every returned daily record             *)
(* peakPowerW, maxVoltage and maxCurrent are the greatest values, absent   *)
(* ones read as 0 and floored at 0, over all samples of the day, the       *)
(* first included; a day of one sample has totalGenerationWh = 0 and       *)
(* peakPowerW equal to that sample's power.                                *)
(***************************************************************************)
PeaksOverAllSamples ==
    Returned =>
        \A i \in 1..Len(result.dailyStats) :
            LET stat == result.dailyStats[i]
                day == DayData(stat.date)
                IsPeak(m, field(_)) ==
                    /\ m >= 0
                    /\ \A k \in 1..Len(day) : field(day[k]) <= m
                    /\ m = 0 \/ \E k \in 1..Len(day) : field(day[k]) = m
                Power(log) == IF log.dc_power_w = Null THEN 0 ELSE log.dc_power_w
                Voltage(log) == IF log.dc_voltage_v = Null THEN 0 ELSE log.dc_voltage_v
                Current(log) == IF log.dc_current_ma = Null THEN 0 ELSE log.dc_current_ma
            IN /\ IsPeak(stat.peakPowerW, Power)
               /\ IsPeak(stat.maxVoltage, Voltage)
               /\ IsPeak(stat.maxCurrent, Current)
               /\ Len(day) = 1 =>
                    /\ stat.totalGenerationWh = 0
                    /\ stat.peakPowerW = Power(day[1])

\* a day of a single sample: its first sample carries the peak, a positive
\* power, and no energy is integrated
PeaksOverAllSamplesWitness ==
    /\ Returned
    /\ \E i \in 1..Len(result.dailyStats) :
         LET day == DayData(result.dailyStats[i].date)
         IN /\ Len(day) = 1
            /\ day[1].dc_power_w > 0
            /\ result.dailyStats[i].peakPowerW = day[1].dc_power_w
            /\ result.dailyStats[i].totalGenerationWh = 0

\* the daily records of a call as a set (none when the call returns null)
StatSet(d) ==
    LET r == processAnalyticsData(d, numDays, endDate, tzOffset)
    IN IF r.isNull THEN {} ELSE {r.dailyStats[i] : i \in 1..Len(r.dailyStats)}

\* the input in the order given by the permutation f of its indices
Reordered(d, f) == [i \in 1..Len(d) |-> d[f[i]]]

\* two samples of one day group with the same timestamp and different power
TiedSamples(a, b) ==
    /\ InHorizon(a) /\ InHorizon(b)
    /\ a.timestamp = b.timestamp
    /\ (IF a.dc_power_w = Null THEN 0 ELSE a.dc_power_w)
         # (IF b.dc_power_w = Null THEN 0 ELSE b.dc_power_w)

HasTiedSamples == \E i, j \in 1..Len(data) : TiedSamples(data[i], data[j])

(***************************************************************************)
(* C9 as stated  Order independence.  The set of daily records is the      *)
(* same for every permutation of the input samples, inputs with two        *)
(* samples of equal timestamp and different power included.  (Inputs of    *)
(* up to MaxIntraday samples are permuted.)                                *)
(***************************************************************************)
OrderIndependent ==
    (pc = "done" /\ Len(data) <= MaxIntraday) =>
        \A own \in {StatSet(data)} : \A f \in Permutations(1..Len(data)) :
            StatSet(Reordered(data, f)) = own

(***************************************************************************)
(* C9 amended  The set of daily records is the same for every permutation  *)
(* of the input samples, provided no two samples of a day share a          *)
(* timestamp while carrying different power values.                        *)
(***************************************************************************)
OrderIndependentWithoutTies ==
    (pc = "done" /\ Len(data) <= MaxIntraday /\ ~HasTiedSamples) =>
        \A own \in {StatSet(data)} : \A f \in Permutations(1..Len(data)) :
            StatSet(Reordered(data, f)) = own

\* three samples of one day arrive in descending order, are integrated to
\* a positive total, and two of them share a timestamp and a power
OrderIndependentWitness ==
    /\ Returned
    /\ ~HasTiedSamples
    /\ Len(data) = 3
    /\ data[1].timestamp > data[2].timestamp
    /\ data[2].timestamp = data[3].timestamp
    /\ \E i \in 1..Len(result.dailyStats) :
         result.dailyStats[i].totalGenerationWh > 0

(***************************************************************************)
(* C10  Unusable samples are discarded.  The result of a call equals the   *)
(* result of the call on the same input with every null sample and every   *)
(* sample without a numeric timestamp removed.                             *)
(***************************************************************************)
UnusableDiscarded ==
    pc = "done" =>
        result = processAnalyticsData(SelectSeq(data, Usable),
                                      numDays, endDate, tzOffset)

(***************************************************************************)
(* C11  No exception on dirty input.  For every input whose elements are   *)
(* null or records with an absent, null, non-numeric or numeric (NaN       *)
(* included) timestamp and absent, null or numeric fields, the call ends   *)
(* by returning null or a {summary, dailyStats} value; it never raises.    *)
(***************************************************************************)
NeverRaises ==
    /\ pc # "raised"
    /\ pc = "done" =>
         \/ result = NullResult
         \/ /\ DOMAIN result = {"isNull", "summary", "dailyStats"}
            /\ Len(result.dailyStats) >= 1

\* a call on a null element next to a sample without power, voltage,
\* current or temperature has returned daily records
NeverRaisesWitness ==
    /\ Returned
    /\ \E i \in 1..Len(data) : ~data[i].obj
    /\ \E i \in 1..Len(data) :
         /\ data[i].obj
         /\ data[i].dc_voltage_v = Null
         /\ data[i].panel_temp_c = Null

(***************************************************************************)
(* C12  Insufficient data.  Called with an absent collection or with 0 or  *)
(* 1 samples, processAnalyticsData returns null for the whole result; the  *)
(* data page, once loaded, then shows the explanatory empty state and not  *)
(* the KPI and calendar widgets.                                           *)
(***************************************************************************)
InsufficientData ==
    /\ \A d \in {Undefined} \cup SeqsUpTo(PageLogs, 1) : \A n \in WindowChoices :
         processAnalyticsData(d, n, endDate, tzOffset) = NullResult
    /\ (pc = "mounted" /\ ~loading /\ Len(data) < 2) => View = "empty"

\* the listener has passed a snapshot of one usable sample to the pipeline
InsufficientDataWitness ==
    /\ pc = "mounted"
    /\ ~loading
    /\ Len(data) = 1
    /\ data[1].timestamp = 0
    /\ result = NullResult
    /\ View = "empty"

(***************************************************************************)
(* C13  Default coercion.  Replacing every absent or null dc_power_w,      *)
(* dc_voltage_v and dc_current_ma of the input by 0 leaves                 *)
(* totalGenerationWh, peakPowerW, maxVoltage and maxCurrent of every day   *)
(* unchanged, and none of them is built from a null.                       *)
(***************************************************************************)
ZeroFilled(log) ==
    [log EXCEPT
       !.dc_power_w = IF log.obj /\ @ = Null THEN 0 ELSE @,
       !.dc_voltage_v = IF log.obj /\ @ = Null THEN 0 ELSE @,
       !.dc_current_ma = IF log.obj /\ @ = Null THEN 0 ELSE @]

Electrical(r) ==
    IF r.isNull THEN <<>>
    ELSE [i \in 1..Len(r.dailyStats) |->
            <<r.dailyStats[i].date, r.dailyStats[i].totalGenerationWh,
              r.dailyStats[i].peakPowerW, r.dailyStats[i].maxVoltage,
              r.dailyStats[i].maxCurrent>>]

DefaultCoercion ==
    pc = "done" =>
        /\ Electrical(result) =
             Electrical(processAnalyticsData(
                 [i \in 1..Len(data) |-> ZeroFilled(data[i])],
                 numDays, endDate, tzOffset))
        /\ \A i \in 1..Len(Electrical(result)) : \A k \in 2..5 :
             Electrical(result)[i][k] \notin {Null, NotANumber, NaN}

\* a day integrates an accepted pair one of whose samples has no power
DefaultCoercionWitness ==
    /\ Returned
    /\ \E i \in 1..Len(result.dailyStats) :
         LET day == DayData(result.dailyStats[i].date)
         IN /\ result.dailyStats[i].totalGenerationWh > 0
            /\ \E k \in AcceptedPairs(day) : day[k - 1].dc_power_w = Null

(***************************************************************************)
(* Vocabulary of the state-of-charge properties                            *)
(***************************************************************************)
\* a number that is not NaN
Ordered(v) == v \notin {Null, NotANumber, NaN}

RatioLe(a, b) == a.num * b.den <= b.num * a.den
RatioEq(a, b) == a.num * b.den = b.num * a.den

(***************************************************************************)
(* C14  SOC bounds.  For every numeric voltage the state of charge lies    *)
(* in [0, 100]; it is exactly 100 for every voltage >= 12.7 and exactly 0  *)
(* for every voltage <= 11.6.                                              *)
(***************************************************************************)
SocBounds ==
    (pc = "rendered" /\ voltage \notin {Null, NotANumber}) =>
        /\ RatioLe(Ratio(0, 1), soc) /\ RatioLe(soc, Ratio(100, 1))
        /\ (Ordered(voltage) /\ voltage >= 1270) => RatioEq(soc, Ratio(100, 1))
        /\ (Ordered(voltage) /\ voltage <= 1160) => RatioEq(soc, Ratio(0, 1))

\* exactly 12.7 V has been mapped to 100
SocBoundsWitness ==
    /\ pc = "rendered"
    /\ voltage = 1270
    /\ soc = Ratio(100, 1)

(***************************************************************************)
(* C15  SOC monotonicity.  For all voltages v1 <= v2 the state of charge   *)
(* of v1 is at most that of v2, across the anchors and at both             *)
(* saturation boundaries.                                                  *)
(***************************************************************************)
SocMonotone ==
    (pc = "rendered" /\ Ordered(voltage)) =>
        \A v2 \in VoltageChoices :
            (Ordered(v2) /\ voltage <= v2) => RatioLe(soc, getBatterySOC(v2))

\* a voltage just below the anchor 12.1 V has been mapped below 40
SocMonotoneWitness ==
    /\ pc = "rendered"
    /\ voltage = 1209
    /\ RatioLe(Ratio(20, 1), soc)
    /\ ~RatioLe(Ratio(40, 1), soc)

(***************************************************************************)
(* C16  SOC defensive default.  For every input that is not a finite       *)
(* number (undefined, null, a string, NaN, +Infinity, -Infinity) the       *)
(* state of charge is 0.                                                   *)
(***************************************************************************)
SocZeroForNonFinite ==
    (pc = "rendered"
        /\ voltage \in {Null, NotANumber, NaN, PosInfinity, NegInfinity}) =>
        RatioEq(soc, Ratio(0, 1))

(***************************************************************************)
(* C17  SOC interpolation.  For every voltage strictly between 11.6 and    *)
(* 12.7 there is exactly one anchor pair with lower.v <= voltage <         *)
(* upper.v, and the state of charge is lower.soc + (voltage - lower.v) /   *)
(* (upper.v - lower.v) * (upper.soc - lower.soc); at each anchor voltage   *)
(* it is the anchor's soc.                                                 *)
(***************************************************************************)
SocInterpolation ==
    (pc = "rendered" /\ Ordered(voltage)) =>
        /\ (1160 < voltage /\ voltage < 1270) =>
             LET anchors ==
                   <<<<1160, 0>>, <<1180, 20>>, <<1210, 40>>,
                     <<1220, 50>>, <<1240, 70>>, <<1270, 100>>>>
                 brackets == {i \in 1..5 : anchors[i][1] <= voltage
                                            /\ voltage < anchors[i + 1][1]}
             IN /\ Cardinality(brackets) = 1
                /\ \A i \in brackets :
                     soc.num * (anchors[i + 1][1] - anchors[i][1]) =
                        soc.den *
                          (anchors[i][2] * (anchors[i + 1][1] - anchors[i][1])
                             + (voltage - anchors[i][1])
                                 * (anchors[i + 1][2] - anchors[i][2]))
        /\ \A a \in {<<1160, 0>>, <<1180, 20>>, <<1210, 40>>,
                     <<1220, 50>>, <<1240, 70>>, <<1270, 100>>} :
             voltage = a[1] => RatioEq(soc, Ratio(a[2], 1))

\* 12.15 V, half way between the anchors 12.1 V and 12.2 V, is mapped to 45
SocInterpolationWitness ==
    /\ pc = "rendered"
    /\ voltage = 1215
    /\ RatioEq(soc, Ratio(45, 1))

(***************************************************************************)
(* Vocabulary of the grouping and window properties                        *)
(***************************************************************************)
\* the samples of the input, each tagged with its position
Tagged ==
    [i \in 1..Len(data) |->
        [obj |-> data[i].obj, timestamp |-> data[i].timestamp, idx |-> i]]

\* the day groups a run that reaches the grouping builds from the tagged
\* samples
DayGroups ==
    IF InsufficientInput(data) THEN <<>>
    ELSE GroupByDate(RelevantData(Tagged, endDate), <<>>)

\* for each of the samples S, the groups that hold it
GroupsOf(groups, S) ==
    [i \in S |->
        {g \in 1..Len(groups) :
            \E k \in 1..Len(groups[g].logs) : groups[g].logs[k].idx = i}]

DayNumber(i) == data[i].timestamp \div 86400

\* the daily records whose UTC midnight is not before asOf - windowDays days
UtcWindow(stats) ==
    SelectSeq(stats, LAMBDA stat :
        stat.date * 86400 >= endDate - numDays * 86400)

WindowByUtcMidnight ==
    Returned =>
        /\ result.summary = Summary(UtcWindow(result.dailyStats))
        /\ \A tz \in TzChoices :
             processAnalyticsData(data, numDays, endDate, tz).summary
                = result.summary

(***************************************************************************)
(* C20  Summary formulas.  For a non-empty window W of daily records,      *)
(* summary.totalKwh = (sum of totalGenerationWh over W) / 1000,            *)
(* summary.avgDailyWh = (sum of totalGenerationWh over W) / |W|, and       *)
(* summary.peakGenerationW = max(0, max of peakPowerW over W).             *)
(***************************************************************************)
SummaryFormulas ==
    Returned =>
        LET stats == result.dailyStats
            W == {i \in 1..Len(stats) :
                    InSummaryWindow(stats[i], numDays, endDate, tzOffset)}
            sum == SetSum(W, [i \in W |-> stats[i].totalGenerationWh])
        IN W # {} =>
             /\ RatioEq(result.summary.totalKwh, Ratio(sum, 1000))
             /\ RatioEq(result.summary.avgDailyWh, Ratio(sum, Cardinality(W)))
             /\ \A i \in W : result.summary.peakGenerationW >= stats[i].peakPowerW
             /\ result.summary.peakGenerationW >= 0
             /\ \/ result.summary.peakGenerationW = 0
                \/ \E i \in W : result.summary.peakGenerationW = stats[i].peakPowerW

\* two days of 50 Wh and 100 Wh: 0.15 kWh in total, 75 Wh a day, peak 200 W
SummaryFormulasWitness ==
    /\ Returned
    /\ data = TwoDays(100, 200)
    /\ Len(result.dailyStats) = 2
    /\ result.summary.totalKwh = Ratio(150 * WhScale, 1000)
    /\ result.summary.avgDailyWh = Ratio(150 * WhScale, 2)
    /\ result.summary.peakGenerationW = 200

(***************************************************************************)
(* Vocabulary of the integration properties                                *)
(***************************************************************************)
\* every sample the run keeps, in ascending order of timestamp
Timeline == SortByTimestamp(RelevantData(data, endDate))

\* the consecutive pairs of the timeline tl less than an hour apart
ClosePairs(tl) ==
    {k \in 2..Len(tl) :
        /\ 0 < tl[k].timestamp - tl[k - 1].timestamp
        /\ tl[k].timestamp - tl[k - 1].timestamp < 3600}

\* those of them whose two samples are both of the UTC day date
PairsWithin(tl, date) ==
    {k \in ClosePairs(tl) :
        /\ tl[k - 1].timestamp \div 86400 = date
        /\ tl[k].timestamp \div 86400 = date}

\* those that lead from one UTC day into the next
PairsAcrossMidnight(tl) ==
    {k \in ClosePairs(tl) :
        tl[k - 1].timestamp \div 86400 # tl[k].timestamp \div 86400}

(***************************************************************************)
(* C21  Day-local integration.  Each day's totalGenerationWh is built      *)
(* only from intervals whose two endpoints are both samples of that same   *)
(* day; the interval between the last sample of one day and the first      *)
(* sample of the next contributes to neither day's total, even when it is  *)
(* shorter than one hour.                                                  *)
(***************************************************************************)
DayLocalIntegration ==
    Returned =>
        \A tl \in {Timeline} : \A i \in 1..Len(result.dailyStats) :
            LET stat == result.dailyStats[i]
                pairs == PairsWithin(tl, stat.date)
                area == [k \in pairs |->
                           (OrZero(tl[k].dc_power_w) + OrZero(tl[k - 1].dc_power_w))
                             * (tl[k].timestamp - tl[k - 1].timestamp)]
            IN stat.totalGenerationWh = SetSum(pairs, area)

\* yesterday 23:45 and today 00:00, both under power, give two days of 0 Wh
DayLocalIntegrationWitness ==
    /\ Returned
    /\ PairsAcrossMidnight(Timeline) # {}
    /\ \A k \in PairsAcrossMidnight(Timeline) :
         OrZero(Timeline[k].dc_power_w) > 0 /\ OrZero(Timeline[k - 1].dc_power_w) > 0
    /\ Len(result.dailyStats) = 2
    /\ \A i \in 1..2 : result.dailyStats[i].totalGenerationWh = 0

(***************************************************************************)
(* C22  Non-negative daily statistics.  For every input whose dc_power_w   *)
(* values are each absent, null or >= 0, every daily record has            *)
(* totalGenerationWh >= 0; for every input at all, every daily record has  *)
(* peakPowerW >= 0, maxVoltage >= 0 and maxCurrent >= 0.                   *)
(***************************************************************************)
NonNegativeStatistics ==
    Returned =>
        \A i \in 1..Len(result.dailyStats) :
            LET stat == result.dailyStats[i]
            IN /\ stat.peakPowerW >= 0
               /\ stat.maxVoltage >= 0
               /\ stat.maxCurrent >= 0
               /\ (\A j \in 1..Len(data) :
                      data[j].obj =>
                         data[j].dc_power_w = Null \/ data[j].dc_power_w >= 0)
                    => stat.totalGenerationWh >= 0

\* a day all of whose readings are negative has maxima of 0
NonNegativeStatisticsWitness ==
    /\ Returned
    /\ Len(data) = 2
    /\ \A j \in 1..2 :
         data[j].dc_power_w < 0 /\ data[j].dc_voltage_v < 0 /\ data[j].dc_current_ma < 0
    /\ data[1].dc_power_w # Null
    /\ result.dailyStats[1].peakPowerW = 0
    /\ result.dailyStats[1].maxVoltage = 0
    /\ result.dailyStats[1].maxCurrent = 0
    /\ result.dailyStats[1].totalGenerationWh < 0

(***************************************************************************)
(* Vocabulary of the data-page properties                                  *)
(***************************************************************************)
Delivered == pc = "mounted" /\ snapshot # Undefined

Elements(seq) == {seq[i] : i \in 1..Len(seq)}

\* how often the sample x occurs in seq
Occurrences(seq, x) == Cardinality({i \in 1..Len(seq) : seq[i] = x})

(***************************************************************************)
(* C23  Recomputed on every refresh.  After any sequence of snapshot       *)
(* deliveries the analytics state is the pipeline result for the snapshot  *)
(* delivered last (no data when that snapshot is empty) and allData holds  *)
(* that snapshot's samples; nothing derived from an earlier snapshot is    *)
(* kept once a newer one, empty or not, has been delivered.                *)
(***************************************************************************)
RecomputedOnRefresh ==
    Delivered =>
        /\ data = snapshot
        /\ result = IF snapshot = <<>> THEN NullResult
                    ELSE processAnalyticsData(snapshot, numDays, endDate, tzOffset)

LatestHundred ==
    (pc = "mounted" /\ selectedDate = Null) =>
        /\ Len(logsToDisplay) = Min(100, Len(data))
        /\ \A k \in 1..(Len(logsToDisplay) - 1) :
             logsToDisplay[k].timestamp >= logsToDisplay[k + 1].timestamp
        /\ \A x \in Elements(data) :
             /\ Occurrences(logsToDisplay, x) <= Occurrences(data, x)
             /\ Occurrences(logsToDisplay, x) < Occurrences(data, x)
                  => \A k \in 1..Len(logsToDisplay) :
                        logsToDisplay[k].timestamp >= x.timestamp
        /\ Elements(logsToDisplay) \subseteq Elements(data)

\* 102 stored samples, oldest first: 100 rows, the two oldest left out
LatestHundredWitness ==
    /\ pc = "mounted"
    /\ selectedDate = Null
    /\ Len(data) = 102
    /\ data[1].timestamp < data[2].timestamp
    /\ Len(logsToDisplay) = 100
    /\ logsToDisplay[1] = data[102]
    /\ logsToDisplay[100] = data[3]

(***************************************************************************)
(* C26  Input is left unchanged.  processAnalyticsData and the log         *)
(* selection do not modify the sample collection they are given: after     *)
(* the calls the array has the same length and element order, and every    *)
(* sample the same fields and values, as when it was delivered.            *)
(***************************************************************************)
InputLeftUnchanged ==
    (Delivered /\ snapshot # <<>>) =>
        /\ Len(data) = Len(snapshot)
        /\ \A i \in 1..Len(data) : data[i] = snapshot[i]

\* a snapshot delivered oldest first is shown latest first and kept as it was
InputLeftUnchangedWitness ==
    /\ Delivered
    /\ selectedDate = Null
    /\ Len(snapshot) = 2
    /\ snapshot[1].timestamp < snapshot[2].timestamp
    /\ logsToDisplay = <<snapshot[2], snapshot[1]>>
    /\ ~result.isNull
    /\ data = snapshot

(***************************************************************************)
(* C27  Selected day shows the samples behind its statistic.  For every    *)
(* day that has a daily record, after its calendar cell is clicked the     *)
(* telemetry log displays exactly the set of samples that were grouped     *)
(* into that day's record, for every timezone offset.                      *)
(***************************************************************************)
SelectedDayShowsItsSamples ==
    (pc = "mounted" /\ selectedDate # Null /\ selectedDate \in ClickableDays) =>
        Elements(logsToDisplay) = Elements(DayData(selectedDate))

(***************************************************************************)
(* C28  Prediction request state.  In every reachable state of aiState at  *)
(* most one of loading, report # null, error # null holds; runAnalysis     *)
(* clears report and error when it starts, a successful response ends in   *)
(* {loading false, report set, error null}, a failed request ends in       *)
(* {loading false, report null, error set}, and loading is not true once   *)
(* the request has settled.                                                *)
(***************************************************************************)
PredictionRequestState ==
    /\ Cardinality({k \in {"loading", "report", "error"} :
          \/ k = "loading" /\ aiState.loading
          \/ k = "report" /\ ~aiState.report.isNull
          \/ k = "error" /\ ~aiState.error.isNull}) <= 1
    /\ request = "none" =>
         ~aiState.loading /\ aiState.report.isNull /\ aiState.error.isNull
    /\ request = "pending" =>
         aiState.loading /\ aiState.report.isNull /\ aiState.error.isNull
    /\ request = "succeeded" =>
         ~aiState.loading /\ ~aiState.report.isNull /\ aiState.error.isNull
    /\ request = "failed" =>
         ~aiState.loading /\ aiState.report.isNull /\ ~aiState.error.isNull

\* a response without net_wh_gain has settled: 123.45 Wh is shown as 123.5
PredictionRequestStateWitness ==
    /\ request = "succeeded"
    /\ ~aiState.loading
    /\ ~aiState.report.isNull
    /\ aiState.report.prediction.total_wh = 1235
    /\ aiState.report.prediction.net_wh_gain = 0

(***************************************************************************)
(* C29  Weather modifier by phrase.  getWeatherModifier returns 0.8 for    *)
(* every description that contains "mostly sunny" or "partly sunny", 1.0   *)
(* only for descriptions that contain "sunny" or "clear" without those     *)
(* qualifiers, 0.6 for "partly cloudy", 0.4 for "mostly cloudy", 0.3 for   *)
(* other "cloudy", 0.15 for rain, fog or overcast, 0.7 when there is no    *)
(* description and 0.5 otherwise, case-insensitively.                      *)
(***************************************************************************)
WeatherModifierByPhrase ==
    pc = "simulated" =>
        IF weather.isNull \/ weather.textDescription = <<>> THEN modifier = 70
        ELSE LET text == weather.textDescription
                 Has(phrase) ==
                     \E i \in 1..Len(text) :
                        /\ i + Len(phrase) - 1 <= Len(text)
                        /\ \A k \in 1..Len(phrase) :
                              LowerCaseOf[text[i + k - 1]] = phrase[k]
             IN /\ (Has(<<"mostly", "sunny">>) \/ Has(<<"partly", "sunny">>))
                     => modifier = 80
                /\ modifier = 100 =>
                     /\ Has(<<"sunny">>) \/ Has(<<"clear">>)
                     /\ ~Has(<<"mostly", "sunny">>) /\ ~Has(<<"partly", "sunny">>)
                /\ (~Has(<<"sunny">>) /\ ~Has(<<"clear">>)) =>
                     modifier =
                        IF Has(<<"partly", "cloudy">>) THEN 60
                        ELSE IF Has(<<"mostly", "cloudy">>) THEN 40
                        ELSE IF Has(<<"cloudy">>) THEN 30
                        ELSE IF Has(<<"rain">>) \/ Has(<<"fog">>)
                                  \/ Has(<<"overcast">>) THEN 15
                        ELSE 50

====
